---------------------------- MODULE Spec2Model ----------------------------
(***************************************************************************)
(* The space iterator of paritydb (src/space.rs): a scanner that walks a   *)
(* buffer of fixed-width fields and reports occupied and empty regions,    *)
(* with a one-slot peek cache and a forward seek.                          *)
(*                                                                         *)
(* The field codec (field_size, FieldIterator, Header) lives in the        *)
(* `field` module, which space.rs only imports; it is modelled from the    *)
(* interface the documentation of the scanner states for it.               *)
(***************************************************************************)
EXTENDS Integers, Sequences, FiniteSets, TLC

(* ------------------------------ bounds --------------------------------- *)

\* Longest buffer handed to SpaceIterator::new, in bytes.
MaxLen == 3

\* Largest field_body_size handed to SpaceIterator::new.
MaxBody == 1

(* --------------------------- the field codec --------------------------- *)

\* Bytes of the buffer: the four header tags 0..3 and 4, a byte that is no
\* header tag (every byte above 3 decodes alike).
Bytes == {0, 1, 2, 3, 4}

\* Width of the header tag stored in front of every field body.
HEADER_SIZE == 1

\* field::field_size: total width of a field in bytes.
field_size(field_body_size) == HEADER_SIZE + field_body_size

\* field.header(): the header tag a field's first byte decodes to.
HeaderOf(b) ==
    CASE b = 0 -> "Uninitialized"
      [] b = 1 -> "Inserted"
      [] b = 2 -> "Continued"
      [] b = 3 -> "Deleted"
      [] OTHER -> "Invalid"

\* FieldIterator::new succeeds only on a slice that holds whole fields.
FieldIteratorOk(len, fs) == len % fs = 0

Live == {"Inserted", "Continued"}
Free == {"Deleted", "Uninitialized"}

(* ------------------------------ results -------------------------------- *)

\* Option::None
NoneR == [kind |-> "None"]

\* Some(Err(e))
ErrR(e) == [kind |-> "Err", err |-> e]

\* data[a..b] of the source: bytes a+1 .. b of the 1-indexed sequence.
Slice(d, a, b) == SubSeq(d, a + 1, b)

\* Some(Ok(Space::Occupied(OccupiedSpace { offset, data })))
Occupied(d, start, off) ==
    [kind |-> "Occupied", offset |-> start, data |-> Slice(d, start, off)]

\* Some(Ok(Space::Empty(EmptySpace { offset, len })))
Empty(start, off) == [kind |-> "Empty", offset |-> start, len |-> off - start]

IsOk(r) == r.kind \in {"Occupied", "Empty"}

\* Byte length of a Space.
SpaceLen(r) == IF r.kind = "Occupied" THEN Len(r.data) ELSE r.len

(* ---------------------- the match of the scan loop --------------------- *)

\* One arm's outcome: either the loop returns `ret`, or it goes on with the
\* new start, self.offset and prev_header.
Return(r, off) == [done |-> TRUE, ret |-> r, start |-> 0, off |-> off, prev |-> "None"]
Go(start, off, prev) == [done |-> FALSE, ret |-> NoneR, start |-> start, off |-> off, prev |-> prev]

\* A scanner that steps over a leading Continued field but leaves the start
\* of the run on it.
OnContinuedKeepingStart(d, fs, start, off, prev) ==
    CASE prev = "None" -> Go(start, off + fs, "None")
      [] prev \in Live -> Go(start, off + fs, "Continued")
      [] prev \in Free -> Return(ErrR("InvalidHeader"), off)

\* A scanner that takes a Continued field after a free one for a leading one.
OnContinuedAfterFreeSkipping(d, fs, start, off, prev) ==
    CASE prev = "None" -> Go(start + fs, off + fs, "None")
      [] prev \in Live -> Go(start, off + fs, "Continued")
      [] prev \in Free -> Go(start, off, prev)

\* A scanner that steps over a leading Continued field without moving
\* self.offset.
OnContinuedNotAdvancing(d, fs, start, off, prev) ==
    CASE prev = "None" -> Go(start + fs, off, "None")
      [] prev \in Live -> Go(start, off + fs, "Continued")
      [] prev \in Free -> Return(ErrR("InvalidHeader"), off)

\* A scanner that puts the cursor back on the free field when it fails on
\* the Continued field after it.
OnContinuedRestoring(d, fs, start, off, prev) ==
    CASE prev = "None" -> Go(start + fs, off + fs, "None")
      [] prev \in Live -> Go(start, off + fs, "Continued")
      [] prev \in Free -> Return(ErrR("InvalidHeader"), start)

\* Header::Continued => match prev_header
OnContinued(d, fs, start, off, prev) ==
    CASE prev = "None" -> Go(start + fs, off + fs, "None")
      [] prev \in Live -> Go(start, off + fs, "Continued")
      [] prev \in Free -> Return(ErrR("InvalidHeader"), off)

\* A scanner that folds an Inserted field into a run that an Inserted field
\* has just opened.
OnInsertedMerging(d, fs, start, off, prev) ==
    CASE prev \in Live \cup {"None"} -> Go(start, off + fs, "Inserted")
      [] prev \in Free -> Return(Empty(start, off), off)

\* A scanner that folds an Inserted field into the open empty run.
OnInsertedAfterFreeFolding(d, fs, start, off, prev) ==
    CASE prev = "Inserted" -> Return(Occupied(d, start, off), off)
      [] prev \in {"Continued", "None"} \cup Free -> Go(start, off + fs, "Inserted")

\* Header::Inserted => match prev_header
OnInserted(d, fs, start, off, prev) ==
    CASE prev = "Inserted" -> Return(Occupied(d, start, off), off)
      [] prev \in {"Continued", "None"} -> Go(start, off + fs, "Inserted")
      [] prev \in Free -> Return(Empty(start, off), off)

\* A scanner that folds a second free field into the open empty run.
OnFreeMerging(d, fs, header, start, off, prev) ==
    CASE prev \in Live -> Return(Occupied(d, start, off), off)
      [] prev \in Free \cup {"None"} -> Go(start, off + fs, header)

\* A scanner that consumes the free field that closes a run.
OnFreeConsuming(d, fs, header, start, off, prev) ==
    CASE prev \in Live -> Return(Occupied(d, start, off), off + fs)
      [] prev \in Free -> Return(Empty(start, off), off + fs)
      [] prev = "None" -> Go(start, off + fs, header)

\* A scanner that opens an empty run without moving self.offset.
OnFreeNotAdvancing(d, fs, header, start, off, prev) ==
    CASE prev \in Live -> Return(Occupied(d, start, off), off)
      [] prev \in Free -> Return(Empty(start, off), off)
      [] prev = "None" -> Go(start, off, header)

\* A scanner that folds a free field into the open occupied run.
OnFreeFoldingIntoRun(d, fs, header, start, off, prev) ==
    CASE prev \in Live -> Go(start, off + fs, "Continued")
      [] prev \in Free -> Return(Empty(start, off), off)
      [] prev = "None" -> Go(start, off + fs, header)

\* Header::Deleted | Header::Uninitialized => match prev_header
OnFree(d, fs, header, start, off, prev) ==
    CASE prev \in Live -> Return(Occupied(d, start, off), off)
      [] prev \in Free -> Return(Empty(start, off), off)
      [] prev = "None" -> Go(start, off + fs, header)

\* match header { ... }
Step(d, fs, header, start, off, prev) ==
    CASE header = "Continued" -> OnContinued(d, fs, start, off, prev)
      [] header = "Inserted" -> OnInserted(d, fs, start, off, prev)
      [] header \in Free -> OnFree(d, fs, header, start, off, prev)

\* A flush that forgets the free field left open at the end of the buffer.
FlushDroppingEmpty(d, start, off, prev) ==
    CASE prev \in Live -> Occupied(d, start, off)
      [] prev \in Free \cup {"None"} -> NoneR

\* prev_header.map(...) after the loop
Flush(d, start, off, prev) ==
    CASE prev \in Live -> Occupied(d, start, off)
      [] prev \in Free -> Empty(start, off)
      [] prev = "None" -> NoneR

\* A loop that moves self.offset past a field whose header does not decode.
RECURSIVE WalkSkippingFailure(_, _, _, _, _, _)
WalkSkippingFailure(d, fs, pos, start, off, prev) ==
    IF pos + fs > Len(d)
    THEN [ret |-> Flush(d, start, off, prev), offset |-> off]
    ELSE LET header == HeaderOf(d[pos + 1]) IN
         IF header = "Invalid"
         THEN [ret |-> ErrR("Decode"), offset |-> off + fs]
         ELSE LET s == Step(d, fs, header, start, off, prev) IN
              IF s.done
              THEN [ret |-> s.ret, offset |-> s.off]
              ELSE WalkSkippingFailure(d, fs, pos + fs, s.start, s.off, s.prev)

\* while let Some(field) = inner.next() { ... }: pos is where the inner
\* field iterator stands, off is self.offset.
RECURSIVE Walk(_, _, _, _, _, _)
Walk(d, fs, pos, start, off, prev) ==
    IF pos + fs > Len(d)
    THEN [ret |-> Flush(d, start, off, prev), offset |-> off]
    ELSE LET header == HeaderOf(d[pos + 1]) IN
         IF header = "Invalid"
         THEN [ret |-> ErrR("Decode"), offset |-> off]
         ELSE LET s == Step(d, fs, header, start, off, prev) IN
              IF s.done
              THEN [ret |-> s.ret, offset |-> s.off]
              ELSE Walk(d, fs, pos + fs, s.start, s.off, s.prev)

\* The body of next() once the peek cache is known to be empty: the value
\* returned and the cursor left behind.  Slicing data[offset..] beyond the
\* end of the buffer panics.
Scan(d, body, off) ==
    IF off > Len(d) THEN [ret |-> [kind |-> "Panic"], offset |-> off]
    ELSE IF off = Len(d) THEN [ret |-> NoneR, offset |-> off]
    ELSE IF ~FieldIteratorOk(Len(d) - off, field_size(body))
         THEN [ret |-> ErrR("Decode"), offset |-> off]
    ELSE Walk(d, field_size(body), off, off, off, "None")

\* A seek that goes wherever it is told, backwards too.
MoveToAnywhere(cur, cache, target) == [offset |-> target, peeked |-> NoneR]

\* A forward seek that keeps the cached lookahead.
MoveToKeepingCache(cur, cache, target) ==
    [offset |-> IF target > cur THEN target ELSE cur, peeked |-> cache]

\* move_offset_forward: the cursor and the cache it leaves.
MoveTo(cur, cache, target) ==
    IF target > cur
    THEN [offset |-> target, peeked |-> NoneR]
    ELSE [offset |-> cur, peeked |-> cache]

\* A next() that scans afresh although a lookahead is cached.
PullIgnoringCache(d, body, off, cache) == Scan(d, body, off)

\* next(): the cached lookahead if there is one (self.peeked.take()), else a
\* fresh scan.  The cache is empty afterwards in both cases.
Pull(d, body, off, cache) ==
    IF cache # NoneR THEN [ret |-> cache, offset |-> off] ELSE Scan(d, body, off)

\* A peek() that hands out a fresh scan without caching it.
PeekForgetful(d, body, off, cache) ==
    LET n == Pull(d, body, off, NoneR)
    IN [ret |-> n.ret, offset |-> n.offset, peeked |-> NoneR]

\* peek(): fills the cache from next() when it is empty, returns the cache.
Peek(d, body, off, cache) ==
    IF cache = NoneR
    THEN LET n == Pull(d, body, off, NoneR)
         IN [ret |-> n.ret, offset |-> n.offset, peeked |-> n.ret]
    ELSE [ret |-> cache, offset |-> off, peeked |-> cache]

(* ------------------------------- state --------------------------------- *)

VARIABLES
    data,              \* SpaceIterator.data
    field_body_size,   \* SpaceIterator.field_body_size
    offset,            \* SpaceIterator.offset, the cursor
    peeked,            \* SpaceIterator.peeked
    panicked,          \* a call panicked: the scan is over
    last,              \* the last call: op, arg, cursor and cache before it, value returned
    prev,              \* the call before it: op, arg, cursor before it, value returned
    plain              \* cursor of a second scanner over the same buffer that gets
                       \* the same calls except peek()

vars == <<data, field_body_size, offset, peeked, panicked, last, prev, plain>>

RECURSIVE SeqsUpTo(_, _)
SeqsUpTo(S, n) ==
    IF n = 0 THEN {<<>>}
    ELSE LET shorter == SeqsUpTo(S, n - 1) IN
         shorter \cup {Append(s, b) : s \in {t \in shorter : Len(t) = n - 1}, b \in S}

\* SpaceIterator::new(data, field_body_size, offset), with the start inside
\* the buffer (a start beyond it makes the first call panic).
Init ==
    /\ data \in SeqsUpTo(Bytes, MaxLen)
    /\ field_body_size \in 0 .. MaxBody
    /\ offset \in 0 .. Len(data)
    /\ peeked = NoneR
    /\ panicked = FALSE
    /\ last = [op |-> "new", arg |-> offset, pre |-> offset, cached |-> NoneR, ret |-> NoneR]
    /\ prev = [op |-> "new", arg |-> offset, pre |-> offset, ret |-> NoneR]
    /\ plain = offset

Called(op, arg, r) ==
    /\ last' = [op |-> op, arg |-> arg, pre |-> offset, cached |-> peeked, ret |-> r]
    /\ prev' = [op |-> last.op, arg |-> last.arg, pre |-> last.pre, ret |-> last.ret]

\* Iterator::next
NextCall ==
    /\ ~panicked
    /\ LET r == Pull(data, field_body_size, offset, peeked)
       IN /\ peeked' = NoneR
          /\ offset' = r.offset
          /\ panicked' = (r.ret.kind = "Panic")
          /\ Called("next", 0, r.ret)
    /\ plain' = Pull(data, field_body_size, plain, NoneR).offset
    /\ UNCHANGED <<data, field_body_size>>

\* SpaceIterator::peek
PeekCall ==
    /\ ~panicked
    /\ LET r == Peek(data, field_body_size, offset, peeked)
       IN /\ peeked' = IF r.ret.kind = "Panic" THEN NoneR ELSE r.peeked
          /\ offset' = r.offset
          /\ panicked' = (r.ret.kind = "Panic")
          /\ Called("peek", 0, r.ret)
    /\ UNCHANGED <<data, field_body_size, plain>>

\* SpaceIterator::move_offset_forward
MoveCall ==
    /\ ~panicked
    /\ \E target \in 0 .. Len(data) + 1 :
          /\ offset' = MoveTo(offset, peeked, target).offset
          /\ peeked' = MoveTo(offset, peeked, target).peeked
          /\ plain' = MoveTo(plain, NoneR, target).offset
          /\ Called("move", target, NoneR)
    /\ UNCHANGED <<data, field_body_size, panicked>>

Next == NextCall \/ PeekCall \/ MoveCall

Spec == Init /\ [][Next]_vars

\* The pull protocol alone: no forward seek.
NextPull == NextCall \/ PeekCall

SpecPull == Init /\ [][NextPull]_vars

(* ------------------------------- claims -------------------------------- *)

\* The field width of the scan.
FS == field_size(field_body_size)

\* The last call returned a value of next() or peek().
Pulled == last.op \in {"next", "peek"}

\* Header tag of the field that starts at byte position p, "End" when no
\* whole field of the buffer starts there.
TagAt(p) == IF p < 0 \/ p + FS > Len(data) THEN "End" ELSE HeaderOf(data[p + 1])

\* C1: every Empty result that next() or peek() returns, and every Empty
\* result held in the peek cache, has len equal to exactly one field width,
\* whatever calls came before.
C1_EmptyIsOneField ==
    /\ (Pulled /\ last.ret.kind = "Empty") => last.ret.len = FS
    /\ peeked.kind = "Empty" => peeked.len = FS

\* C1 witness: an Empty result was returned for a free field whose right
\* neighbour is free as well.
C1_Witness ==
    /\ Pulled /\ last.ret.kind = "Empty"
    /\ last.ret.len = FS
    /\ TagAt(last.ret.offset + FS) \in Free

\* C2: every Occupied result of next() is a non-empty whole number of
\* fields of the buffer, the first tagged Inserted and every further one
\* tagged Continued.  The scanner breaks it: an Inserted field that follows
\* a Continued one is folded into the open run.
C2_OccupiedShape ==
    (last.op = "next" /\ last.ret.kind = "Occupied") =>
        LET r == last.ret
            n == Len(r.data)
        IN /\ n > 0
           /\ n % FS = 0
           /\ r.data = Slice(data, r.offset, r.offset + n)
           /\ HeaderOf(r.data[1]) = "Inserted"
           /\ \A i \in 1 .. (n \div FS) - 1 : HeaderOf(r.data[i * FS + 1]) = "Continued"

\* End of a Space: the offset right after its last byte.
SpaceEnd(r) == r.offset + SpaceLen(r)

\* C3: when two next() calls in a row both return a Space, the second
\* Space starts where the first one ends.
C3_Gapless ==
    (prev.op = "next" /\ last.op = "next" /\ IsOk(prev.ret) /\ IsOk(last.ret)) =>
        last.ret.offset = SpaceEnd(prev.ret)

\* C3 witness: two next() calls in a row returned an Occupied and then an
\* Empty result, the second starting at the end of the first.
C3_Witness ==
    /\ prev.op = "next" /\ last.op = "next"
    /\ prev.ret.kind = "Occupied" /\ last.ret.kind = "Empty"
    /\ last.ret.offset = SpaceEnd(prev.ret)

\* C4: a peek() that directly follows a peek() returns the same value and
\* leaves the cursor and the cache as they were.
C4_PeekIdempotent ==
    (prev.op = "peek" /\ last.op = "peek") =>
        /\ last.ret = prev.ret
        /\ offset = last.pre
        /\ peeked = last.cached

\* C4 witness: a second peek() returned the Space the first one had cached.
C4_Witness ==
    /\ prev.op = "peek" /\ last.op = "peek"
    /\ IsOk(last.ret) /\ last.ret = prev.ret
    /\ SpaceEnd(last.ret) < Len(data)

\* C5: without forward seeks, every next() returns what the next() of the
\* scanner that is never peeked returns, and a next() right after a peek()
\* that returned a value returns that value, empties the cache and leaves the
\* cursor alone.
C5_PeekTransparent ==
    [][last'.op = "next" =>
          /\ last'.ret = Scan(data, field_body_size, plain).ret
          /\ (last.op = "peek" /\ last.ret # NoneR) =>
                /\ last'.ret = last.ret
                /\ peeked' = NoneR
                /\ offset' = offset]_vars

\* C5 witness: a next() after a peek() returned the peeked Space, which is
\* not the first of the buffer, and a further region is left to scan; the
\* scanner that was never peeked stands at the same cursor.
C5_Witness ==
    /\ prev.op = "peek" /\ last.op = "next"
    /\ IsOk(last.ret) /\ last.ret = prev.ret
    /\ last.ret.offset > 0
    /\ offset < Len(data)
    /\ plain = offset

\* C6: a move_offset_forward(target) with target beyond the cursor leaves
\* cursor = target and an empty cache; with target at or before the cursor it
\* leaves cursor and cache as they were; the buffer and field_body_size stay
\* as they were in both cases.
C6_MoveEffect ==
    [][last'.op = "move" =>
          /\ last'.arg > offset => (offset' = last'.arg /\ peeked' = NoneR)
          /\ last'.arg <= offset => (offset' = offset /\ peeked' = peeked)
          /\ data' = data
          /\ field_body_size' = field_body_size]_vars

\* C6 witness: a seek beyond the cursor discarded a cached Space.
C6_Witness ==
    /\ last.op = "move" /\ last.arg > last.pre
    /\ IsOk(last.cached)
    /\ offset = last.arg /\ peeked = NoneR

\* C7: after peek() returned a Space S and move_offset_forward(end of S),
\* the next next() returns neither S nor a region that starts before the end
\* of S.  The scanner breaks it: peek() has left the cursor at the end of S, so
\* the seek is a no-op that keeps S cached.
C7_SkipPeeked ==
    [][(/\ prev.op = "peek" /\ IsOk(prev.ret)
        /\ last.op = "move" /\ last.arg = SpaceEnd(prev.ret)
        /\ last'.op = "next") =>
          /\ last'.ret # prev.ret
          /\ IsOk(last'.ret) => last'.ret.offset >= last.arg]_vars

\* C8 as stated: after move_offset_forward(x) and then move_offset_forward(y)
\* with y <= x, the cursor is x.
C8_Original ==
    (prev.op = "move" /\ last.op = "move" /\ last.arg <= prev.arg) =>
        offset = prev.arg

\* C8: after move_offset_forward(x) and then move_offset_forward(y) with
\* y <= x, the cursor is x if x was beyond the cursor before the two calls,
\* and is where it was before them otherwise.
C8_SeekMonotone ==
    (prev.op = "move" /\ last.op = "move" /\ last.arg <= prev.arg) =>
        offset = IF prev.arg > prev.pre THEN prev.arg ELSE prev.pre

\* C8 witness: a seek forward to x and then a seek back to some y < x left
\* the cursor at x.
C8_Witness ==
    /\ prev.op = "move" /\ last.op = "move"
    /\ prev.arg > prev.pre /\ last.arg < prev.arg
    /\ offset = prev.arg

\* C9: no call leaves the cursor before the place it had when the call began.
C9_CursorMonotone == offset >= last.pre

\* C9 witness: a seek to a target before the cursor left the cursor alone.
C9_Witness ==
    /\ last.op = "move" /\ last.arg < last.pre
    /\ offset = last.pre

\* Number of Continued fields in a row from byte position p on.
RECURSIVE LeadingContinued(_)
LeadingContinued(p) ==
    IF TagAt(p) = "Continued" THEN 1 + LeadingContinued(p + FS) ELSE 0

\* The last call ran the scan loop from last.pre: it was a next() or a
\* peek() on an empty cache, over a tail of whole fields.
Scanned ==
    /\ Pulled /\ last.cached = NoneR
    /\ last.pre <= Len(data)
    /\ FieldIteratorOk(Len(data) - last.pre, FS)

\* C10: a scan that starts on k >= 1 Continued fields in a row moves the
\* cursor over them, returns no Space that starts before their end, returns
\* a Space (if any) that starts right at their end, and returns None with the
\* cursor at the end of the buffer when the buffer ends with them.
C10_LeadingContinuedSkipped ==
    LET k == LeadingContinued(last.pre)
        after == last.pre + k * FS
    IN (Scanned /\ k >= 1) =>
          /\ offset >= after
          /\ IsOk(last.ret) => last.ret.offset = after
          /\ after = Len(data) => (last.ret = NoneR /\ offset = Len(data))

\* C10 witness: a scan that started on a Continued field returned a Space.
C10_Witness ==
    /\ Scanned /\ LeadingContinued(last.pre) >= 1
    /\ IsOk(last.ret)


\* The fields of an Occupied result r, counted from 0: the tag of field i.
TagIn(r, i) == HeaderOf(r.data[i * FS + 1])

\* Number of fields of an Occupied result.
FieldsIn(r) == Len(r.data) \div FS

\* C11: a scan that starts on a free field directly followed by a Continued
\* field returns the error InvalidHeader.
C11_ContinuedAfterFree ==
    (Scanned /\ TagAt(last.pre) \in Free /\ TagAt(last.pre + FS) = "Continued") =>
        last.ret = ErrR("InvalidHeader")

\* C11 witness: a next() on a Deleted field followed by a Continued field
\* returned InvalidHeader.
C11_Witness ==
    /\ Scanned /\ last.op = "next"
    /\ TagAt(last.pre) = "Deleted" /\ TagAt(last.pre + FS) = "Continued"
    /\ last.ret = ErrR("InvalidHeader")

\* The Occupied result r ends on an Inserted field and the field right
\* after it is Inserted too.
SplitsInserted(r) ==
    /\ r.kind = "Occupied"
    /\ FieldsIn(r) >= 1
    /\ TagIn(r, FieldsIn(r) - 1) = "Inserted"
    /\ TagAt(SpaceEnd(r)) = "Inserted"

\* No Occupied result holds two Inserted fields side by side, and a result
\* that ends between two Inserted fields leaves the cursor on the second.
InsertedNotMerged ==
    (Pulled /\ last.ret.kind = "Occupied") =>
        /\ \A i \in 0 .. FieldsIn(last.ret) - 2 :
              ~(TagIn(last.ret, i) = "Inserted" /\ TagIn(last.ret, i + 1) = "Inserted")
        /\ SplitsInserted(last.ret) => offset = SpaceEnd(last.ret)

\* C12 as stated: two Inserted fields side by side are never in one Occupied
\* result, the first result ends between them with the cursor on the second,
\* and the following next() returns an Occupied result that starts there.
C12_Original ==
    /\ InsertedNotMerged
    /\ (prev.op = "next" /\ SplitsInserted(prev.ret) /\ last.op = "next") =>
          (last.ret.kind = "Occupied" /\ last.ret.offset = SpaceEnd(prev.ret))

\* C12: as above, but the following next() returns the decode failure
\* instead when a field it reads after the second Inserted field has no
\* valid header tag.
C12_InsertedSplit ==
    /\ InsertedNotMerged
    /\ (prev.op = "next" /\ SplitsInserted(prev.ret) /\ last.op = "next") =>
          \/ last.ret.kind = "Occupied" /\ last.ret.offset = SpaceEnd(prev.ret)
          \/ /\ last.ret = ErrR("Decode")
             /\ \E p \in SpaceEnd(prev.ret) + 1 .. Len(data) : HeaderOf(data[p]) = "Invalid"

\* C12 witness: two next() calls returned one Occupied result for each of
\* two Inserted fields side by side.
C12_Witness ==
    /\ prev.op = "next" /\ SplitsInserted(prev.ret) /\ last.op = "next"
    /\ last.ret.kind = "Occupied" /\ last.ret.offset = SpaceEnd(prev.ret)

\* C13: once a next() or peek() has returned None, a next() or peek() that
\* follows it directly returns None too and leaves the cursor where it was,
\* at the end of the buffer.
C13_ExhaustionPermanent ==
    (prev.op \in {"next", "peek"} /\ prev.ret = NoneR /\ Pulled) =>
        /\ last.ret = NoneR
        /\ offset = last.pre
        /\ offset = Len(data)

\* C13 witness: a next() that dropped leading Continued fields up to the end
\* of the buffer returned None, and the peek() after it returned None.
C13_Witness ==
    /\ prev.op = "next" /\ prev.ret = NoneR /\ prev.pre < Len(data)
    /\ last.op = "peek" /\ last.ret = NoneR
    /\ offset = Len(data)


\* C14 as stated: a next() directly after a failed next() returns the same
\* failure.
C14_Original ==
    (prev.op = "next" /\ prev.ret.kind = "Err" /\ last.op = "next") =>
        last.ret = prev.ret

\* C14: a next() directly after a next() that failed to decode (a header
\* tag, or a tail that is not whole fields) returns the same failure and
\* leaves the cursor where it was.  (After InvalidHeader the cursor stands past
\* the free field, and the next() after it goes on behind the failure.)
C14_DecodeFailureSticks ==
    (prev.op = "next" /\ prev.ret = ErrR("Decode") /\ last.op = "next") =>
        /\ last.ret = prev.ret
        /\ offset = last.pre

\* C14 witness: a next() folded an Inserted field, failed on the header of
\* the field after it, and the next() after it failed again at the same cursor.
C14_Witness ==
    /\ prev.op = "next" /\ prev.ret = ErrR("Decode") /\ last.op = "next"
    /\ last.ret = ErrR("Decode")
    /\ offset = last.pre /\ offset > prev.pre
    /\ FieldIteratorOk(Len(data) - offset, FS)
    /\ TagAt(offset) = "Invalid"

\* A scan from prev.pre met a free field directly followed by an Inserted one.
FreeThenInserted(p) == TagAt(p) \in Free /\ TagAt(p + FS) = "Inserted"

\* The first half of C15: a scan that starts on a free field directly
\* followed by an Inserted field returns Empty for the free field alone and
\* leaves the cursor on the Inserted field.
EmptyBeforeInserted ==
    (Scanned /\ FreeThenInserted(last.pre)) =>
        /\ last.ret = [kind |-> "Empty", offset |-> last.pre, len |-> FS]
        /\ offset = last.pre + FS

\* C15 as stated: ... and the next() after it returns an Occupied result
\* that starts at the Inserted field.
C15_Original ==
    /\ EmptyBeforeInserted
    /\ (/\ prev.op = "next" /\ prev.ret.kind = "Empty"
        /\ FreeThenInserted(prev.ret.offset) /\ last.op = "next") =>
          (last.ret.kind = "Occupied" /\ last.ret.offset = prev.ret.offset + FS)

\* C15: ... and the next() after it returns an Occupied result that starts
\* at the Inserted field, or the decode failure when a field it reads after
\* the Inserted field has no valid header tag.
C15_InsertedAfterFree ==
    /\ EmptyBeforeInserted
    /\ (/\ prev.op = "next" /\ prev.ret.kind = "Empty"
        /\ FreeThenInserted(prev.ret.offset) /\ last.op = "next") =>
          \/ last.ret.kind = "Occupied" /\ last.ret.offset = prev.ret.offset + FS
          \/ /\ last.ret = ErrR("Decode")
             /\ \E p \in prev.ret.offset + FS + 1 .. Len(data) : HeaderOf(data[p]) = "Invalid"

\* C15 witness: next() returned Empty for a free field, then Occupied for
\* the Inserted field right after it.
C15_Witness ==
    /\ prev.op = "next" /\ prev.ret.kind = "Empty"
    /\ FreeThenInserted(prev.ret.offset) /\ last.op = "next"
    /\ last.ret.kind = "Occupied" /\ last.ret.offset = prev.ret.offset + FS

\* The fields from byte position p to the end of the buffer are folded into
\* a run whose last folded field is at p - FS: each is Continued, or Inserted
\* right after a Continued one.
RECURSIVE FoldsToEnd(_)
FoldsToEnd(p) ==
    \/ p >= Len(data)
    \/ /\ \/ TagAt(p) = "Continued"
          \/ TagAt(p) = "Inserted" /\ TagAt(p - FS) = "Continued"
       /\ FoldsToEnd(p + FS)

\* C16: a scan that reaches the end of the buffer with a run open returns
\* Occupied(run start .. end of buffer) when the run is live, Empty(run
\* start, one field) when it is one free field, and None when only leading
\* Continued fields were dropped; the cursor is at the end of the buffer then.
C16_FlushAtEnd ==
    LET a == last.pre + LeadingContinued(last.pre) * FS
    IN Scanned =>
          /\ (TagAt(a) = "Inserted" /\ FoldsToEnd(a + FS)) =>
                (last.ret = Occupied(data, a, Len(data)) /\ offset = Len(data))
          /\ (TagAt(a) \in Free /\ a + FS = Len(data)) =>
                (last.ret = [kind |-> "Empty", offset |-> a, len |-> FS] /\ offset = Len(data))
          /\ (a = Len(data)) =>
                (last.ret = NoneR /\ offset = Len(data))

\* C16 witness: a scan dropped a leading Continued field and returned the
\* free field that ends the buffer.
C16_Witness ==
    /\ Scanned /\ LeadingContinued(last.pre) >= 1
    /\ last.ret.kind = "Empty" /\ SpaceEnd(last.ret) = Len(data)
    /\ offset = Len(data)


\* C17: a scan that fails with InvalidHeader leaves the cursor one field
\* width past the free field, on the Continued field; no later scan returns a
\* Space that starts before the cursor it began at, so the free field is never
\* reported; and the next() after the failure drops the Continued fields it
\* stands on: it moves the cursor over them, a Space it returns starts right
\* after them, and a new InvalidHeader comes from a free field after them.
C17_InvalidHeaderNotRestored ==
    /\ (Scanned /\ last.ret = ErrR("InvalidHeader")) =>
          /\ TagAt(offset - FS) \in Free /\ TagAt(offset) = "Continued"
          /\ offset = last.pre + (LeadingContinued(last.pre) + 1) * FS
    /\ (Scanned /\ IsOk(last.ret)) => last.ret.offset >= last.pre
    /\ (prev.op = "next" /\ prev.ret = ErrR("InvalidHeader") /\ last.op = "next") =>
          LET k == LeadingContinued(last.pre)
              after == last.pre + k * FS
          IN /\ k >= 1
             /\ offset >= after
             /\ IsOk(last.ret) => last.ret.offset = after
             /\ last.ret = ErrR("InvalidHeader") =>
                   (TagAt(after) \in Free /\ TagAt(after + FS) = "Continued")

\* C17 witness: after next() failed with InvalidHeader, the next next()
\* dropped the Continued field and returned the region behind it.
C17_Witness ==
    /\ prev.op = "next" /\ prev.ret = ErrR("InvalidHeader") /\ last.op = "next"
    /\ IsOk(last.ret)
    /\ last.ret.offset = last.pre + FS
    /\ TagAt(last.pre) = "Continued" /\ TagAt(last.pre - FS) \in Free

\* Every field from byte position p to the end of the buffer has a header
\* tag that decodes.
AllDecodeFrom(p) ==
    \A q \in p .. Len(data) - 1 : ((q - p) % FS = 0) => HeaderOf(data[q + 1]) # "Invalid"

\* Number of results other than None that repeated next() calls return from
\* cursor off on before the first None; -1 when `fuel` calls do not reach it.
RECURSIVE Drain(_, _)
Drain(off, fuel) ==
    IF fuel = 0 THEN -1
    ELSE LET r == Scan(data, field_body_size, off) IN
         IF r.ret = NoneR THEN 0
         ELSE LET rest == Drain(r.offset, fuel - 1) IN
              IF rest = -1 THEN -1 ELSE 1 + rest

\* C18: over whole fields whose tags all decode, a scan that returns a
\* Space or InvalidHeader moves the cursor on by a field width or more, and
\* repeated next() calls from any cursor return None after at most as many
\* other results as there are fields left.
C18_ScanTerminates ==
    /\ (Scanned /\ AllDecodeFrom(last.pre) /\ last.ret # NoneR) =>
          offset >= last.pre + FS
    /\ (/\ peeked = NoneR /\ offset <= Len(data)
        /\ FieldIteratorOk(Len(data) - offset, FS) /\ AllDecodeFrom(offset)) =>
          LET n == Drain(offset, MaxLen + 2)
          IN n >= 0 /\ n <= (Len(data) - offset) \div FS

\* C18 witness: over two fields that decode, next() returned InvalidHeader
\* with the cursor moved on by one field, and the next() after it returned None.
C18_Witness ==
    /\ prev.op = "next" /\ prev.ret = ErrR("InvalidHeader")
    /\ last.op = "next" /\ last.ret = NoneR
    /\ last.pre = prev.pre + FS
    /\ FieldIteratorOk(Len(data) - prev.pre, FS) /\ AllDecodeFrom(prev.pre)
    /\ offset = Len(data)

\* C19: every Empty result covers a free field, every Occupied result
\* starts on an Inserted field and covers Inserted and Continued fields only.
C19_Classification ==
    /\ (Pulled /\ last.ret.kind = "Empty") => TagAt(last.ret.offset) \in Free
    /\ (Pulled /\ last.ret.kind = "Occupied") =>
          /\ FieldsIn(last.ret) >= 1
          /\ last.ret.data = Slice(data, last.ret.offset, SpaceEnd(last.ret))
          /\ TagIn(last.ret, 0) = "Inserted"
          /\ \A i \in 0 .. FieldsIn(last.ret) - 1 : TagIn(last.ret, i) \in Live

\* C19 witness: an Occupied result of two fields ends right before a free
\* field.
C19_Witness ==
    /\ Pulled /\ last.ret.kind = "Occupied"
    /\ FieldsIn(last.ret) >= 2
    /\ TagAt(SpaceEnd(last.ret)) \in Free

\* C20: the cursor never goes beyond the end of the buffer, and no call
\* panics on data[cursor..].  The scanner breaks it: move_offset_forward takes
\* any target beyond the cursor, and the next() after it slices out of range.
C20_CursorInBounds == offset <= Len(data) /\ ~panicked

=============================================================================
